---- MODULE Spec2Model ----
(***************************************************************************)
(* Model of the canup bootloader host: bootloader.py (class Bootloader),   *)
(* boards.py (flash layouts, boards) and the driver loops of update.py.    *)
(*                                                                         *)
(* Time is counted in ticks, TicksPerUnit ticks to one time unit of         *)
(* time.time().  bus.recv(timeout=1) returns a frame after 1..TicksPerUnit  *)
(* ticks or None after TicksPerUnit ticks.  The bus is adversarial: any     *)
(* frame of RxFrames may be delivered to any receive.  Device frames have   *)
(* the payload shapes of the CAN protocol (status: 1 byte, lost packet: 2   *)
(* bytes).  Flash layouts are the layouts of boards.py scaled down to       *)
(* sectors of 64 bytes so that an image spans a few program frames.         *)
(***************************************************************************)
EXTENDS Integers, Sequences, FiniteSets, TLC

VARIABLES
    mode,           \* "update" or "erase" (args.erase of update.py)
    configs,        \* the list of boards the driver walks
    bi,             \* index in configs of the board of the current session
    pc,             \* position of the driver / the session in the code
    ih,             \* self.ih: the image of the session (NoImage for erase)
    timeout,        \* self.timeout
    sectors,        \* the list handed to erase_sectors
    si,             \* erase_sectors: index of the loop over sectors
    erase_progress, \* erase_sectors: erase_progress
    i,              \* program: index i of the address loop
    waiting,        \* _await_can_msg: the timeout argument of the running call
    elapsed,        \* _await_can_msg: time.time() - start, in ticks
    ret,            \* _await_can_msg: the value returned (pending while it runs)
    error,          \* the RuntimeError that ended the session, NoError if none
    log,            \* history: frames sent and received in this session
    ui,             \* history: the ui_callback calls of this session
    nlost,          \* history: lost-packet reports delivered in this session
    result          \* output of the pure-function specifications

vars == <<mode, configs, bi, pc, ih, timeout, sectors, si, erase_progress, i,
          waiting, elapsed, ret, error, log, ui, nlost, result>>

----------------------------------------------------------------------------
(* Bounds of the model *)

TicksPerUnit == 2
ShortTimeout == 2
MaxStatusByte == 3
MaxResends == 2
MaxSpan == 70
OtherCanId == 1999

----------------------------------------------------------------------------
(* bootloader.py: protocol constants *)

ERASE_SECTOR_CAN_ID == 1000
PROGRAM_CAN_ID == 1001
VERIFY_CAN_ID == 1002
LOST_PACKET_CAN_ID == 1003
ERASE_SECTOR_COMPLETE_CAN_ID == 1010
APP_VALIDITY_CAN_ID == 1011
BOOT_STATUS_APP_VALID == 0
BOOT_STATUS_APP_INVALID == 1
BOOT_STATUS_NO_APP == 2
MIN_PROG_SIZE_BYTES == 32
DEFAULT_TIMEOUT == 5
RECV_TIMEOUT == 1
CHUNK == 8
UI_PERIOD == 128

ErrStart == "did not respond to command to start a firmware update"
ErrEraseStart == "did not respond to erase command"
ErrEraseFlash == "did not respond to command to erase flash memory"
ErrIntegrity == "failed to verify application integrity"
ErrVerifyNoResponse == "did not respond to command to verify application integrity"
ErrVerifyErase == "failed to verify erase"
ErrEraseNoResponse == "did not respond to command to erase flash"
ErrReadonly == "Attempted to write to a readonly memory sector!"
NoError == "none"

----------------------------------------------------------------------------
(* boards.py *)

FlashSector(id, base, size, wp) ==
    [id |-> id, base_address |-> base, size |-> size, write_protect |-> wp]

max_address(sector) == sector.base_address + sector.size - 1

\* STM32H733xx-like layout: sector 0 holds the bootloader, scaled to 64 bytes
STM32H733_MCU ==
    [name |-> "STM32H733xx",
     flash_sectors |-> << FlashSector(0, 0, 64, TRUE),
                          FlashSector(1, 64, 64, FALSE),
                          FlashSector(2, 128, 64, FALSE) >>]

\* the layout of the erase-selection example: 0x1000 = 4096, 0x2000 = 8192
EXAMPLE_MCU ==
    [name |-> "example",
     flash_sectors |-> << FlashSector(0, 4096, 4096, TRUE),
                          FlashSector(1, 8192, 4096, FALSE) >>]

quadruna_VC ==
    [name |-> "VC", start_update_can_id |-> 1210, update_ack_can_id |-> 1211,
     mcu |-> STM32H733_MCU]
quadruna_BMS ==
    [name |-> "BMS", start_update_can_id |-> 1200, update_ack_can_id |-> 1201,
     mcu |-> STM32H733_MCU]
h7dev ==
    [name |-> "h7dev", start_update_can_id |-> 1300, update_ack_can_id |-> 1301,
     mcu |-> EXAMPLE_MCU]

CONFIGS == { <<quadruna_VC>>, <<quadruna_VC, quadruna_BMS>>, <<h7dev>> }

----------------------------------------------------------------------------
(* The image source (intelhex.IntelHex as used by bootloader.py) *)

Image(lo, hi) == [minaddr |-> lo, maxaddr |-> hi]
NoImage == Image(0, -1)

\* the images a build directory may hold for a board
Images(board) ==
    IF board.mcu = EXAMPLE_MCU
    THEN { Image(8191, 8207), Image(8192, 9222) }
    ELSE { Image(64, 64), Image(64, 95), Image(64, 96), Image(64, 127),
           Image(48, 70), Image(100, 140), Image(200, 200) }

\* self.ih[a]: the data byte at a, the padding byte where the image has none
ByteAt(image, a) ==
    IF a >= image.minaddr /\ a <= image.maxaddr THEN (a * 7 + 3) % 256
    ELSE 255

ReadChunk(image, a) == [k \in 1..CHUNK |-> ByteAt(image, a + k - 1)]

----------------------------------------------------------------------------
(* Frames *)

Frame(id, data) == [id |-> id, data |-> data]

\* what the bus may deliver to a receive of a session with this board
StatusFrames == { Frame(APP_VALIDITY_CAN_ID, <<b>>) : b \in 0..MaxStatusByte }
LostAddresses == {64, 256}
LostFrames ==
    { Frame(LOST_PACKET_CAN_ID, <<a % 256, a \div 256>>) : a \in LostAddresses }
PlainFrames(board) ==
    { Frame(board.update_ack_can_id, <<>>),
      Frame(ERASE_SECTOR_COMPLETE_CAN_ID, <<>>),
      Frame(OtherCanId, <<>>) }
RxFrames(board) == PlainFrames(board) \cup StatusFrames \cup LostFrames

NoFrame == Frame(0, <<>>)

\* history events: k is "tx", "rx" (a frame the code acted on) or "none"
\* (a receive that returned None); at is the function that did it
Event(k, at, f) == [k |-> k, at |-> at, id |-> f.id, data |-> f.data]

Pending == [tag |-> "pending", msg |-> NoFrame]
None == [tag |-> "none", msg |-> NoFrame]
False == [tag |-> "false", msg |-> NoFrame]
Msg(f) == [tag |-> "msg", msg |-> f]

----------------------------------------------------------------------------
(* bootloader.py: pure helpers *)

\* math.ceil(n / d) for n >= 0, d > 0
Ceil(n, d) == IF n % d = 0 THEN n \div d ELSE n \div d + 1

\* mutant: the rounding goes down
size_bytes_floor(image) ==
    ((image.maxaddr - image.minaddr) \div MIN_PROG_SIZE_BYTES)
      * MIN_PROG_SIZE_BYTES

size_bytes(image) ==
    Ceil(image.maxaddr - image.minaddr, MIN_PROG_SIZE_BYTES) * MIN_PROG_SIZE_BYTES

\* mutant: the comparisons are strict
_intersect_strict(a_min, a_max, b_min, b_max) == a_max > b_min /\ b_max > a_min

_intersect(a_min, a_max, b_min, b_max) == a_max >= b_min /\ b_max >= a_min

\* mutant: only the sector that holds the first address of the image is taken
app_flash_sectors_of_start(board, image) ==
    SelectSeq(board.mcu.flash_sectors,
              LAMBDA s : _intersect(image.minaddr, image.minaddr,
                                    s.base_address, max_address(s)))

\* update: the sectors used by the app, in the order of the layout
app_flash_sectors(board, image) ==
    SelectSeq(board.mcu.flash_sectors,
              LAMBDA s : _intersect(image.minaddr,
                                    image.minaddr + size_bytes(image),
                                    s.base_address, max_address(s)))

\* mutant: every sector is taken
writeable_sectors_all(board) == board.mcu.flash_sectors

\* erase: the sectors that are not write protected
writeable_sectors(board) ==
    SelectSeq(board.mcu.flash_sectors, LAMBDA s : ~s.write_protect)

RECURSIVE SumSizes(_)
SumSizes(ss) == IF ss = <<>> THEN 0 ELSE Head(ss).size + SumSizes(Tail(ss))

\* the validators of start_update, erase_sectors and status: TRUE for the
\* awaited identifier, "None" (keep waiting) for any other; "any" is a
\* validator with all three answers, as the validator argument allows: True
\* for the ack identifier, False for OtherCanId, None for the rest
Validator(at, board, msg) ==
    CASE at = "start_update" ->
           IF msg.id = board.update_ack_can_id THEN "True" ELSE "None"
      [] at = "erase_sectors" ->
           IF msg.id = ERASE_SECTOR_COMPLETE_CAN_ID THEN "True" ELSE "None"
      [] at = "status" ->
           IF msg.id = APP_VALIDITY_CAN_ID THEN "True" ELSE "None"
      [] at = "any" ->
           IF msg.id = board.update_ack_can_id THEN "True"
           ELSE IF msg.id = OtherCanId THEN "False" ELSE "None"

\* mutant: the result of the wait is ignored
start_update_ok_always(r) == TRUE

\* start_update: "_await_can_msg(...) is not None"
start_update_ok(r) == r.tag # "none"

\* mutant: the result of the wait for the erase-complete frame is ignored
erase_wait_failed_never(r) == FALSE

\* erase_sectors: "not self._await_can_msg(...)" (a can.Message is truthy)
erase_wait_failed(r) == r.tag \in {"none", "false"}

\* mutant: the write-protect check is missing
is_write_protected_never(sector) == FALSE

\* erase_sectors: "if sector.write_protect"
is_write_protected(sector) == sector.write_protect

\* mutants: update takes anything but APP_INVALID, erase wants APP_VALID
update_status_ok_lax(boot_status) == boot_status # BOOT_STATUS_APP_INVALID
erase_status_ok_valid(boot_status) == boot_status = BOOT_STATUS_APP_VALID

\* update / erase: the status byte each operation takes as success
update_status_ok(boot_status) == boot_status = BOOT_STATUS_APP_VALID
erase_status_ok(boot_status) == boot_status = BOOT_STATUS_NO_APP

\* mutant: the address is read high byte first
lost_address_big_endian(data) == data[1] * 256 + data[2]

\* resend_lost_packets: the address in a lost-packet report
lost_address(data) == data[2] * 256 + data[1]

\* resend_lost_packets: "msg and msg.arbitration_id == LOST_PACKET_CAN_ID"
is_lost_packet(r) == r.tag = "msg" /\ r.msg.id = LOST_PACKET_CAN_ID

Board == configs[bi]
Timeouts == {ShortTimeout, DEFAULT_TIMEOUT}

----------------------------------------------------------------------------
(* Initial state: the driver is about to walk the list of boards *)

Init ==
    /\ mode \in {"update", "erase"}
    /\ configs \in CONFIGS
    /\ bi = 1
    /\ pc = "idle"
    /\ ih = NoImage
    /\ timeout = DEFAULT_TIMEOUT
    /\ sectors = <<>>
    /\ si = 1
    /\ erase_progress = 0
    /\ i = 0
    /\ waiting = 0
    /\ elapsed = 0
    /\ ret = Pending
    /\ error = NoError
    /\ log = <<>>
    /\ ui = <<>>
    /\ nlost = 0
    /\ result = <<>>

----------------------------------------------------------------------------
(* update.py: the driver loops of update() and erase() *)

\* the loop body up to the call of boot_interface.update() / .erase():
\* a new Bootloader for the next board (Bootloader.__init__)
NewSession ==
    /\ pc = "idle"
    /\ bi <= Len(configs)
    /\ ih' \in (IF mode = "update" THEN Images(Board) ELSE {NoImage})
    /\ timeout' \in Timeouts
    /\ pc' = "start_update"
    /\ sectors' = <<>>
    /\ si' = 1
    /\ erase_progress' = 0
    /\ i' = 0
    /\ waiting' = 0
    /\ elapsed' = 0
    /\ ret' = Pending
    /\ log' = <<>>
    /\ ui' = <<>>
    /\ nlost' = 0
    /\ UNCHANGED <<mode, configs, bi, error, result>>

\* mutant: the driver goes on to the next board after a failed session too
NextBoardAfterFailure ==
    /\ pc \in {"returned", "failed"}
    /\ bi' = bi + 1
    /\ pc' = "idle"
    /\ UNCHANGED <<mode, configs, ih, timeout, sectors, si, erase_progress, i,
                   waiting, elapsed, ret, error, log, ui, nlost, result>>

\* boot_interface.update() / .erase() returned: log it, go to the next board
NextBoard ==
    /\ pc = "returned"
    /\ bi' = bi + 1
    /\ pc' = "idle"
    /\ UNCHANGED <<mode, configs, ih, timeout, sectors, si, erase_progress, i,
                   waiting, elapsed, ret, error, log, ui, nlost, result>>

\* the loop is over: the final success message
DriverDone ==
    /\ pc = "idle"
    /\ bi > Len(configs)
    /\ pc' = "finished"
    /\ UNCHANGED <<mode, configs, bi, ih, timeout, sectors, si, erase_progress,
                   i, waiting, elapsed, ret, error, log, ui, nlost, result>>

----------------------------------------------------------------------------
(* Bootloader._await_can_msg *)

AwaitAt ==
    CASE pc = "start_update_wait" -> "start_update"
      [] pc = "erase_wait" -> "erase_sectors"
      [] pc = "status_wait" -> "status"
      [] pc = "await" -> "any"
      [] OTHER -> "none"

Awaiting == AwaitAt # "none" /\ ret = Pending

\* mutant: the loop goes on while the elapsed time is not above the timeout
await_running_inclusive(el, t) == el <= t * TicksPerUnit

\* "while time.time() - start < timeout"
await_running(el, t) == el < t * TicksPerUnit

\* the value the loop body yields for a received frame: the frame, False, or
\* Pending to go round the loop again
await_step(at, board, msg) ==
    CASE Validator(at, board, msg) = "True" -> Msg(msg)
      [] Validator(at, board, msg) = "False" -> False
      [] OTHER -> Pending

\* the frames a receive of the wait may return; for the wait on its own a
\* few of them do, since there every frame received goes to the history
AwaitFrames ==
    IF pc = "await"
    THEN PlainFrames(Board) \cup { Frame(APP_VALIDITY_CAN_ID, <<0>>),
                                   Frame(LOST_PACKET_CAN_ID, <<64, 0>>) }
    ELSE RxFrames(Board)

\* one round of the loop in which bus.recv returns a frame
AwaitRecvFrame ==
    /\ Awaiting
    /\ await_running(elapsed, waiting)
    /\ \E msg \in AwaitFrames, dt \in 1..(RECV_TIMEOUT * TicksPerUnit) :
         /\ elapsed' = elapsed + dt
         /\ ret' = await_step(AwaitAt, Board, msg)
         /\ log' = IF ret'.tag = "msg" \/ pc = "await"
                   THEN Append(log, Event("rx", AwaitAt, msg)) ELSE log
    /\ UNCHANGED <<mode, configs, bi, pc, ih, timeout, sectors, si,
                   erase_progress, i, waiting, error, ui, nlost, result>>

\* one round of the loop in which bus.recv returns None
AwaitRecvNone ==
    /\ Awaiting
    /\ await_running(elapsed, waiting)
    /\ elapsed' = elapsed + RECV_TIMEOUT * TicksPerUnit
    /\ UNCHANGED <<mode, configs, bi, pc, ih, timeout, sectors, si,
                   erase_progress, i, waiting, ret, error, log, ui, nlost,
                   result>>

\* the loop condition fails: return None
AwaitExpire ==
    /\ Awaiting
    /\ ~await_running(elapsed, waiting)
    /\ ret' = None
    /\ UNCHANGED <<mode, configs, bi, pc, ih, timeout, sectors, si,
                   erase_progress, i, waiting, elapsed, error, log, ui, nlost,
                   result>>

----------------------------------------------------------------------------
(* Bootloader.start_update, and update / erase up to the erase phase *)

StartUpdate ==
    /\ pc = "start_update"
    /\ log' = Append(log, Event("tx", "start_update",
                                Frame(Board.start_update_can_id, <<>>)))
    /\ waiting' = timeout
    /\ elapsed' = 0
    /\ ret' = Pending
    /\ pc' = "start_update_wait"
    /\ UNCHANGED <<mode, configs, bi, ih, timeout, sectors, si, erase_progress,
                   i, error, ui, nlost, result>>

\* start_update returned True: select the sectors, enter erase_sectors
StartUpdateAcked ==
    /\ pc = "start_update_wait"
    /\ ret # Pending
    /\ start_update_ok(ret)
    /\ sectors' = IF mode = "update" THEN app_flash_sectors(Board, ih)
                  ELSE writeable_sectors(Board)
    /\ si' = 1
    /\ erase_progress' = 0
    /\ elapsed' = 0
    /\ ret' = Pending
    /\ pc' = "erase_sectors"
    /\ UNCHANGED <<mode, configs, bi, ih, timeout, i, waiting, error, log, ui,
                   nlost, result>>

\* start_update returned False: update / erase raise
StartUpdateFailed ==
    /\ pc = "start_update_wait"
    /\ ret # Pending
    /\ ~start_update_ok(ret)
    /\ error' = IF mode = "update" THEN ErrStart ELSE ErrEraseStart
    /\ pc' = "failed"
    /\ elapsed' = 0
    /\ UNCHANGED <<mode, configs, bi, ih, timeout, sectors, si, erase_progress,
                   i, waiting, ret, log, ui, nlost, result>>

----------------------------------------------------------------------------
(* Bootloader.erase_sectors *)

EraseLabel == "Erasing FLASH sectors"

\* loop body for a sector that is not write protected, up to the wait
EraseSectorSend ==
    /\ pc = "erase_sectors"
    /\ si <= Len(sectors)
    /\ ~is_write_protected(sectors[si])
    /\ ui' = Append(ui, <<EraseLabel, SumSizes(sectors), erase_progress>>)
    /\ log' = Append(log, Event("tx", "erase_sectors",
                                Frame(ERASE_SECTOR_CAN_ID, <<sectors[si].id>>)))
    /\ waiting' = timeout
    /\ elapsed' = 0
    /\ ret' = Pending
    /\ pc' = "erase_wait"
    /\ UNCHANGED <<mode, configs, bi, ih, timeout, sectors, si, erase_progress,
                   i, error, nlost, result>>

\* loop body for a write-protected sector: raise
EraseSectorProtected ==
    /\ pc = "erase_sectors"
    /\ si <= Len(sectors)
    /\ is_write_protected(sectors[si])
    /\ ui' = Append(ui, <<EraseLabel, SumSizes(sectors), erase_progress>>)
    /\ error' = ErrReadonly
    /\ pc' = "failed"
    /\ UNCHANGED <<mode, configs, bi, ih, timeout, sectors, si, erase_progress,
                   i, waiting, elapsed, ret, log, nlost, result>>

\* the wait gave a frame: next sector
EraseSectorCompleted ==
    /\ pc = "erase_wait"
    /\ ret # Pending
    /\ ~erase_wait_failed(ret)
    /\ erase_progress' = erase_progress + sectors[si].size
    /\ si' = si + 1
    /\ elapsed' = 0
    /\ ret' = Pending
    /\ pc' = "erase_sectors"
    /\ UNCHANGED <<mode, configs, bi, ih, timeout, sectors, i, waiting, error,
                   log, ui, nlost, result>>

\* the wait gave nothing: erase_sectors returns False, update / erase raise
EraseSectorTimedOut ==
    /\ pc = "erase_wait"
    /\ ret # Pending
    /\ erase_wait_failed(ret)
    /\ error' = ErrEraseFlash
    /\ pc' = "failed"
    /\ elapsed' = 0
    /\ UNCHANGED <<mode, configs, bi, ih, timeout, sectors, si, erase_progress,
                   i, waiting, ret, log, ui, nlost, result>>

\* the loop is over: report, return True; update goes on to program, erase
\* to status
EraseSectorsDone ==
    /\ pc = "erase_sectors"
    /\ si > Len(sectors)
    /\ ui' = Append(ui, <<EraseLabel, SumSizes(sectors), SumSizes(sectors)>>)
    /\ i' = 0
    /\ pc' = IF mode = "update" THEN "program" ELSE "status"
    /\ UNCHANGED <<mode, configs, bi, ih, timeout, sectors, si, erase_progress,
                   waiting, elapsed, ret, error, log, nlost, result>>

----------------------------------------------------------------------------
(* Bootloader.program *)

ProgramLabel == "Programming data"

\* mutant: the loop steps by one address, not by 8
program_address_bytewise(image, k) == image.minaddr + k

\* the address of round k of the loop over range(minaddr, minaddr + size, 8)
program_address(image, k) == image.minaddr + CHUNK * k

\* the loop has a round k
program_running(image, k) ==
    program_address(image, k) < image.minaddr + size_bytes(image)

\* one round of the address loop
ProgramFrame ==
    /\ pc = "program"
    /\ program_running(ih, i)
    /\ ui' = IF i % UI_PERIOD = 0
             THEN Append(ui, <<ProgramLabel, size_bytes(ih), i * CHUNK>>)
             ELSE ui
    /\ log' = Append(log, Event("tx", "program",
                 Frame(PROGRAM_CAN_ID, ReadChunk(ih, program_address(ih, i)))))
    /\ i' = i + 1
    /\ UNCHANGED <<mode, configs, bi, pc, ih, timeout, sectors, si,
                   erase_progress, waiting, elapsed, ret, error, nlost, result>>

\* mutant: program returns without calling resend_lost_packets
ProgramDoneNoRecovery ==
    /\ pc = "program"
    /\ ~program_running(ih, i)
    /\ ui' = Append(ui, <<ProgramLabel, size_bytes(ih), size_bytes(ih)>>)
    /\ pc' = "status"
    /\ UNCHANGED <<mode, configs, bi, ih, timeout, sectors, si, erase_progress,
                   i, waiting, elapsed, ret, error, log, nlost, result>>

\* mutant: program does not report the end of the address loop
ProgramDoneNoReport ==
    /\ pc = "program"
    /\ ~program_running(ih, i)
    /\ pc' = "resend_lost_packets"
    /\ UNCHANGED <<mode, configs, bi, ih, timeout, sectors, si, erase_progress,
                   i, waiting, elapsed, ret, error, log, ui, nlost, result>>

\* the address loop is over: report, call resend_lost_packets
ProgramDone ==
    /\ pc = "program"
    /\ ~program_running(ih, i)
    /\ ui' = Append(ui, <<ProgramLabel, size_bytes(ih), size_bytes(ih)>>)
    /\ pc' = "resend_lost_packets"
    /\ UNCHANGED <<mode, configs, bi, ih, timeout, sectors, si, erase_progress,
                   i, waiting, elapsed, ret, error, log, nlost, result>>

----------------------------------------------------------------------------
(* Bootloader.resend_lost_packets *)

\* one round of "while True" for the value r of bus.recv(timeout=1)
ResendRound(r) ==
    IF is_lost_packet(r)
    THEN /\ log' = log \o
                   << Event("rx", "resend_lost_packets", r.msg),
                      Event("tx", "resend_lost_packets",
                            Frame(LOST_PACKET_CAN_ID,
                                  ReadChunk(ih, lost_address(r.msg.data)))) >>
         /\ pc' = pc
    ELSE /\ log' = Append(log, Event(IF r.tag = "msg" THEN "rx" ELSE "none",
                                     "resend_lost_packets", r.msg))
         /\ pc' = "status"

\* bus.recv returns a lost-packet report
ResendLostPacket ==
    /\ pc = "resend_lost_packets"
    /\ nlost < MaxResends
    /\ \E msg \in LostFrames : ResendRound(Msg(msg))
    /\ nlost' = nlost + 1
    /\ UNCHANGED <<mode, configs, bi, ih, timeout, sectors, si, erase_progress,
                   i, waiting, elapsed, ret, error, ui, result>>

\* bus.recv returns a frame with another identifier
ResendOtherFrame ==
    /\ pc = "resend_lost_packets"
    /\ \E msg \in RxFrames(Board) \ LostFrames : ResendRound(Msg(msg))
    /\ UNCHANGED <<mode, configs, bi, ih, timeout, sectors, si, erase_progress,
                   i, waiting, elapsed, ret, error, ui, nlost, result>>

\* bus.recv returns None
ResendNoFrame ==
    /\ pc = "resend_lost_packets"
    /\ ResendRound(None)
    /\ UNCHANGED <<mode, configs, bi, ih, timeout, sectors, si, erase_progress,
                   i, waiting, elapsed, ret, error, ui, nlost, result>>

----------------------------------------------------------------------------
(* Bootloader.status, and the verify step of update / erase *)

VerifyLabel == IF mode = "update" THEN "Verifying programming" ELSE "Verifying erase"
VerifyTotal == IF mode = "update" THEN size_bytes(ih) ELSE SumSizes(sectors)

\* the timeout status() gives to _await_can_msg: none, so its default
status_timeout(t) == DEFAULT_TIMEOUT

\* report the start of the verification, send the verify command
Status ==
    /\ pc = "status"
    /\ ui' = Append(ui, <<VerifyLabel, VerifyTotal, 0>>)
    /\ log' = Append(log, Event("tx", "status", Frame(VERIFY_CAN_ID, <<>>)))
    /\ waiting' = status_timeout(timeout)
    /\ elapsed' = 0
    /\ ret' = Pending
    /\ pc' = "status_wait"
    /\ UNCHANGED <<mode, configs, bi, ih, timeout, sectors, si, erase_progress,
                   i, error, nlost, result>>

\* status() returned None: raise
StatusNoResponse ==
    /\ pc = "status_wait"
    /\ ret = None
    /\ error' = IF mode = "update" THEN ErrVerifyNoResponse
                ELSE ErrEraseNoResponse
    /\ pc' = "failed"
    /\ elapsed' = 0
    /\ UNCHANGED <<mode, configs, bi, ih, timeout, sectors, si, erase_progress,
                   i, waiting, ret, log, ui, nlost, result>>

status_ok(boot_status) ==
    IF mode = "update" THEN update_status_ok(boot_status)
    ELSE erase_status_ok(boot_status)

\* status() returned rx_msg.data[0] and it is not the wanted one: raise
StatusRejected ==
    /\ pc = "status_wait"
    /\ ret.tag = "msg"
    /\ ~status_ok(ret.msg.data[1])
    /\ error' = IF mode = "update" THEN ErrIntegrity ELSE ErrVerifyErase
    /\ pc' = "failed"
    /\ elapsed' = 0
    /\ UNCHANGED <<mode, configs, bi, ih, timeout, sectors, si, erase_progress,
                   i, waiting, ret, log, ui, nlost, result>>

\* status() returned the wanted status: report, return
StatusAccepted ==
    /\ pc = "status_wait"
    /\ ret.tag = "msg"
    /\ status_ok(ret.msg.data[1])
    /\ ui' = Append(ui, <<VerifyLabel, VerifyTotal, VerifyTotal>>)
    /\ pc' = "returned"
    /\ elapsed' = 0
    /\ UNCHANGED <<mode, configs, bi, ih, timeout, sectors, si, erase_progress,
                   i, waiting, ret, error, log, nlost, result>>

----------------------------------------------------------------------------

Next ==
    \/ NewSession
    \/ NextBoard
    \/ DriverDone
    \/ AwaitRecvNone
    \/ AwaitRecvFrame
    \/ AwaitExpire
    \/ StartUpdate
    \/ StartUpdateAcked
    \/ StartUpdateFailed
    \/ EraseSectorSend
    \/ EraseSectorProtected
    \/ EraseSectorCompleted
    \/ EraseSectorTimedOut
    \/ EraseSectorsDone
    \/ ProgramFrame
    \/ ProgramDone
    \/ ResendLostPacket
    \/ ResendOtherFrame
    \/ ResendNoFrame
    \/ Status
    \/ StatusNoResponse
    \/ StatusRejected
    \/ StatusAccepted

Spec == Init /\ [][Next]_vars

----------------------------------------------------------------------------
(* The pure functions on their own: size_bytes and the erase selection of   *)
(* update over a range of images and layouts                                *)

\* three adjacent sectors from address 0, of 32 or 64 bytes, some protected
FnLayouts ==
    { << FlashSector(0, 0, a, p),
         FlashSector(1, a, b, q),
         FlashSector(2, a + b, 32, FALSE) >> :
      a \in {32, 64}, b \in {32, 64}, p \in BOOLEAN, q \in BOOLEAN }

FnBoard(layout) ==
    [name |-> "fn", start_update_can_id |-> 1300, update_ack_can_id |-> 1301,
     mcu |-> [name |-> "fn", flash_sectors |-> layout]]

FnImages ==
    { Image(lo, lo + n) : lo \in {0, 31, 32, 64}, n \in 0..MaxSpan }

InitFn ==
    /\ mode = "update"
    /\ configs \in { <<FnBoard(layout)>> : layout \in FnLayouts }
    /\ bi = 1
    /\ pc = "fn"
    /\ ih \in FnImages
    /\ timeout = DEFAULT_TIMEOUT
    /\ sectors = <<>>
    /\ si = 1
    /\ erase_progress = 0
    /\ i = 0
    /\ waiting = 0
    /\ elapsed = 0
    /\ ret = Pending
    /\ error = NoError
    /\ log = <<>>
    /\ ui = <<>>
    /\ nlost = 0
    /\ result = <<>>

CallSizeBytes ==
    /\ pc = "fn"
    /\ result = <<>>
    /\ result' = <<"size_bytes", size_bytes(ih)>>
    /\ UNCHANGED <<mode, configs, bi, pc, ih, timeout, sectors, si,
                   erase_progress, i, waiting, elapsed, ret, error, log, ui,
                   nlost>>

CallSelect ==
    /\ pc = "fn"
    /\ result = <<>>
    /\ result' = <<"app_flash_sectors", app_flash_sectors(Board, ih)>>
    /\ UNCHANGED <<mode, configs, bi, pc, ih, timeout, sectors, si,
                   erase_progress, i, waiting, elapsed, ret, error, log, ui,
                   nlost>>

NextFn == CallSizeBytes \/ CallSelect

SpecFn == InitFn /\ [][NextFn]_vars

----------------------------------------------------------------------------
(* Properties *)

\* a session is running or has ended and the driver has not moved on
InSession == pc \notin {"idle", "finished", "fn"}

\* positions in the log
TxOf(id) == { n \in 1..Len(log) : log[n].k = "tx" /\ log[n].id = id }
RxAt(at, id) ==
    { n \in 1..Len(log) : log[n].k = "rx" /\ log[n].at = at /\ log[n].id = id }

StartTx == TxOf(Board.start_update_can_id)
EraseTx == TxOf(ERASE_SECTOR_CAN_ID)
ProgramTx == TxOf(PROGRAM_CAN_ID)
VerifyTx == TxOf(VERIFY_CAN_ID)
ResendTx == TxOf(LOST_PACKET_CAN_ID)
AckRx == RxAt("start_update", Board.update_ack_can_id)
EraseRx == RxAt("erase_sectors", ERASE_SECTOR_COMPLETE_CAN_ID)
StatusRx == RxAt("status", APP_VALIDITY_CAN_ID)

\* the receives of the recovery loop, and those that ended it
RecoveryRecv ==
    { n \in 1..Len(log) :
        log[n].at = "resend_lost_packets" /\ log[n].k \in {"rx", "none"} }
RecoveryEnd ==
    { n \in RecoveryRecv : ~(log[n].k = "rx" /\ log[n].id = LOST_PACKET_CAN_ID) }

Selected == IF mode = "update" THEN app_flash_sectors(Board, ih)
            ELSE writeable_sectors(Board)

\* C1: in an update the frames go out in the order handshake, erase,
\* program, lost-packet recovery, verify: one start frame first, no erase
\* frame before the ack, no program frame before an erase-complete for each
\* selected sector, the recovery loop after the last program frame, and the
\* one verify frame only after the recovery loop has ended; a session that
\* returns has gone through every phase
C1_PhaseOrder ==
    (InSession /\ mode = "update" /\ log # <<>>) =>
      /\ log[1] = Event("tx", "start_update",
                        Frame(Board.start_update_can_id, <<>>))
      /\ Cardinality(StartTx) = 1
      /\ LET ack_rx == AckRx
             erase_tx == EraseTx
             erase_rx == EraseRx
             program_tx == ProgramTx
             recovery == RecoveryRecv \cup ResendTx
             recovery_end == RecoveryEnd
             verify_tx == VerifyTx
             selected == Len(Selected)
         IN  /\ \A n \in erase_tx : \E m \in ack_rx : m < n
             /\ \A n \in program_tx :
                  /\ Cardinality({ m \in erase_rx : m < n }) = selected
                  /\ Cardinality({ m \in erase_tx : m < n }) = selected
                  /\ \A m \in erase_tx : m < n
             /\ \A n \in recovery :
                  /\ \A m \in program_tx : m < n
                  /\ Cardinality(program_tx) * CHUNK = size_bytes(ih)
                  /\ Cardinality(erase_rx) = selected
             /\ \A n \in verify_tx :
                  /\ \E m \in recovery_end : m < n
                  /\ \A m \in recovery : m < n
             /\ Cardinality(verify_tx) <= 1
             /\ Cardinality(recovery_end) <= 1
             /\ pc = "returned" => verify_tx # {}

C1_Witness ==
    /\ mode = "update"
    /\ pc = "returned"
    /\ Len(Selected) = 2
    /\ ProgramTx # {}
    /\ ResendTx # {}

\* C2: update fails fast: without an accepted ack it ends with the "did not
\* respond to command to start" error and sends nothing but the start
\* frame; when an erase-complete wait times out it ends with the erase
\* error and has sent no program, lost-packet or verify frame
C2_FailFast ==
    (InSession /\ mode = "update") =>
      /\ AckRx = {} =>
           /\ EraseTx \cup ProgramTx \cup ResendTx \cup VerifyTx = {}
           /\ pc = "failed" => error = ErrStart
      /\ error = ErrStart => AckRx = {} /\ pc = "failed"
      /\ (pc = "failed" /\ Cardinality(EraseRx) < Cardinality(EraseTx)) =>
           error = ErrEraseFlash
      /\ error = ErrEraseFlash =>
           /\ pc = "failed"
           /\ Cardinality(EraseRx) < Cardinality(EraseTx)
           /\ ProgramTx \cup ResendTx \cup VerifyTx = {}
           /\ log[Len(log)].id = ERASE_SECTOR_CAN_ID

C2_Witness ==
    /\ mode = "update"
    /\ pc = "failed"
    /\ error = ErrEraseFlash
    /\ Cardinality(EraseTx) = 2
    /\ Cardinality(EraseRx) = 1

\* the conditions under which a session has passed every phase
AllPhasesPassed(status) ==
    /\ AckRx # {}
    /\ Cardinality(EraseRx) = Len(Selected)
    /\ \E n \in StatusRx : log[n].data = <<status>>

\* C3: update ends by returning exactly if an ack was accepted, an
\* erase-complete was accepted for every selected sector and the accepted
\* app-validity frame carries APP_VALID; any other status byte gives the
\* integrity error and no app-validity frame gives the no-response error
C3_UpdateConjunction ==
    (InSession /\ mode = "update") =>
      /\ pc = "returned" => AllPhasesPassed(BOOT_STATUS_APP_VALID)
      /\ pc = "failed" => ~AllPhasesPassed(BOOT_STATUS_APP_VALID)
      /\ Cardinality(StatusRx) <= 1
      /\ \A n \in StatusRx :
           (pc = "failed" /\ log[n].data # <<BOOT_STATUS_APP_VALID>>)
             <=> error = ErrIntegrity
      /\ (pc = "failed" /\ VerifyTx # {} /\ StatusRx = {})
           <=> error = ErrVerifyNoResponse
      /\ error = ErrIntegrity => StatusRx # {}

C3_Witness ==
    /\ mode = "update"
    /\ pc = "returned"
    /\ Len(Selected) >= 1
    /\ AllPhasesPassed(BOOT_STATUS_APP_VALID)

\* C4: after the handshake and the erase of all selected sectors, erase
\* ends by returning exactly if the accepted app-validity frame carries
\* NO_APP; APP_VALID, APP_INVALID (any other byte) give the "failed to
\* verify erase" error and no app-validity frame gives another, "did not
\* respond" error
C4_EraseNeedsNoApp ==
    (InSession /\ mode = "erase") =>
      /\ pc = "returned" => AllPhasesPassed(BOOT_STATUS_NO_APP)
      /\ pc = "failed" => ~AllPhasesPassed(BOOT_STATUS_NO_APP)
      /\ Cardinality(StatusRx) <= 1
      /\ \A n \in StatusRx :
           (pc = "failed" /\ log[n].data # <<BOOT_STATUS_NO_APP>>)
             <=> error = ErrVerifyErase
      /\ (pc = "failed" /\ VerifyTx # {} /\ StatusRx = {})
           <=> error = ErrEraseNoResponse
      /\ error = ErrVerifyErase => StatusRx # {}
      /\ ErrVerifyErase # ErrEraseNoResponse

C4_Witness ==
    /\ mode = "erase"
    /\ pc = "returned"
    /\ Len(Selected) = 2
    /\ AllPhasesPassed(BOOT_STATUS_NO_APP)

\* the sectors of the board with this id
SectorsWithId(id) ==
    { n \in 1..Len(Board.mcu.flash_sectors) : Board.mcu.flash_sectors[n].id = id }

C5_State ==
    InSession =>
      /\ \A n \in EraseTx : \A k \in SectorsWithId(log[n].data[1]) :
           ~Board.mcu.flash_sectors[k].write_protect
      /\ error = ErrReadonly =>
           /\ pc = "failed"
           /\ si <= Len(sectors)
           /\ sectors[si].write_protect
           /\ Cardinality(EraseTx) = si - 1
           /\ ProgramTx \cup ResendTx \cup VerifyTx = {}

C5_Step ==
    /\ (pc = "erase_sectors" /\ si <= Len(sectors) /\ sectors[si].write_protect)
         => (error' = ErrReadonly /\ log' = log)
    /\ error = ErrReadonly => log' = log

\* C5: no erase frame carries the id of a write-protected sector; when
\* erase_sectors reaches a write-protected sector it raises the readonly
\* error without sending a frame for it, and no frame is sent afterwards
C5_NoProtectedErase == [](C5_State) /\ [][C5_Step]_vars

C5_Witness ==
    /\ error = ErrReadonly
    /\ pc = "failed"
    /\ log # <<>>

\* the sector s has an address in the half-open range [lo, hi)
SharesAddress(s, lo, hi) ==
    /\ lo < hi
    /\ s.base_address < hi
    /\ max_address(s) >= lo

\* the erase selection of update has been made
SelectionMade == InSession /\ mode = "update" /\ AckRx # {}
                           /\ pc # "start_update_wait"

\* C6 (as claimed): the sectors update hands to the erase phase are exactly
\* the sectors with an address in [minaddr, minaddr + size_bytes())
C6_SelectionExact ==
    SelectionMade =>
      \A k \in 1..Len(Board.mcu.flash_sectors) :
        LET s == Board.mcu.flash_sectors[k] IN
          (\E n \in 1..Len(sectors) : sectors[n] = s)
            <=> SharesAddress(s, ih.minaddr, ih.minaddr + size_bytes(ih))

\* the example: sectors (0, 0x1000, 0x1000, protected), (1, 0x2000, 0x1000,
\* open) and an image over the addresses 0x1FFF .. 0x200F
ExampleCase ==
    /\ SelectionMade
    /\ Board.mcu = EXAMPLE_MCU
    /\ ih = Image(8191, 8207)

\* C7 (as claimed): in the example update selects sector 1 only and the
\* erase phase does not hit the write-protection failure
C7_Original ==
    ExampleCase =>
      /\ sectors = << FlashSector(1, 8192, 4096, FALSE) >>
      /\ error # ErrReadonly

\* C7 (amended): in the example update selects sector 0 and sector 1, since
\* address 0x1FFF is the last address of sector 0, and the erase phase ends
\* with the write-protection failure before any erase frame is sent
C7_ExampleSelection ==
    /\ _intersect(8191, 8208, 4096, 8191)
    /\ _intersect(8191, 8208, 8192, 12287)
    /\ ExampleCase =>
         /\ sectors = EXAMPLE_MCU.flash_sectors
         /\ EraseTx = {}
         /\ pc \in {"erase_sectors", "failed"}
         /\ pc = "failed" => error = ErrReadonly

C7_Witness ==
    /\ ExampleCase
    /\ pc = "failed"
    /\ error = ErrReadonly
    /\ Len(sectors) = 2

\* the program phase of an update is over
Programmed == InSession /\ mode = "update"
                        /\ (pc = "resend_lost_packets" \/ RecoveryRecv # {})

\* the first address of the program frame at position n of the log
FrameStart(n) ==
    ih.minaddr + CHUNK * Cardinality({ m \in ProgramTx : m < n })

\* C8 (as claimed): the program phase writes the whole image: every address
\* of minaddr .. maxaddr lies in the 8 bytes of some program frame
C8_WholeImage ==
    Programmed =>
      \A a \in ih.minaddr..ih.maxaddr :
        \E n \in ProgramTx : FrameStart(n) <= a /\ a < FrameStart(n) + CHUNK

\* C9: size_bytes is the least multiple of 32 that is not below the raw
\* span maxaddr - minaddr: 33 gives 64, 32 gives 32, a multiple of 32 is
\* left as it is
C9_RoundUp ==
    (result # <<>> /\ result[1] = "size_bytes") =>
      LET n == ih.maxaddr - ih.minaddr
          r == result[2]
      IN /\ r % MIN_PROG_SIZE_BYTES = 0
         /\ r >= n
         /\ r < n + MIN_PROG_SIZE_BYTES
         /\ n = 33 => r = 64
         /\ n = 32 => r = 32
         /\ n % MIN_PROG_SIZE_BYTES = 0 => r = n
         /\ size_bytes(Image(ih.minaddr, ih.minaddr + r)) = r

C9_Witness ==
    /\ result = <<"size_bytes", 64>>
    /\ ih.maxaddr - ih.minaddr = 33

\* C10 (as claimed): the recovery loop ends only on a receive that returns
\* no frame; a frame with another identifier does not end it
C10_EndsOnEmptyReceive ==
    InSession => \A n \in RecoveryEnd : log[n].k = "none"


\* the lost-packet reports the recovery loop received
LostRx == RxAt("resend_lost_packets", LOST_PACKET_CAN_ID)

\* the address a report carries: low byte, then high byte
ReportedAddress(n) == log[n].data[1] + 256 * log[n].data[2]

\* C11 (as claimed): when the recovery loop has ended, the number of frames
\* resent is the number of distinct addresses reported
C11_OnePerDistinctAddress ==
    (InSession /\ RecoveryEnd # {}) =>
      Cardinality(ResendTx) = Cardinality({ ReportedAddress(n) : n \in LostRx })

\* C11 (amended): every lost-packet report (lo, hi) is answered at once by
\* one frame on the lost-packet identifier that carries the 8 image bytes
\* at lo + 256 * hi and the 7 addresses after it, and the number of frames
\* resent is the number of reports received, an address reported twice
\* being resent twice
C11_OnePerReport ==
    InSession =>
      LET lost_rx == LostRx
          resend_tx == ResendTx
      IN  /\ \A n \in lost_rx :
                /\ n < Len(log)
                /\ log[n + 1].k = "tx"
                /\ log[n + 1].id = LOST_PACKET_CAN_ID
                /\ log[n + 1].data =
                     [j \in 1..CHUNK |-> ByteAt(ih, ReportedAddress(n) + j - 1)]
          /\ \A n \in resend_tx : n - 1 \in lost_rx
          /\ Cardinality(resend_tx) = Cardinality(lost_rx)

C11_Witness ==
    /\ InSession
    /\ RecoveryEnd # {}
    /\ Cardinality(LostRx) = 2
    /\ Cardinality({ ReportedAddress(n) : n \in LostRx }) = 1
    /\ Cardinality(ResendTx) = 2


----------------------------------------------------------------------------
(* Termination: the device may go on reporting lost packets for ever.  The  *)
(* history then keeps the last MaxResends reports and their resends only.   *)

\* the log without the oldest report of the recovery loop and its resend
DropOldestReport(l) ==
    LET first == CHOOSE n \in 1..Len(l) :
                   /\ l[n].at = "resend_lost_packets"
                   /\ \A m \in 1..(n - 1) : l[m].at # "resend_lost_packets"
    IN SubSeq(l, 1, first - 1) \o SubSeq(l, first + 2, Len(l))

\* one more round of "while True" in which bus.recv returns a lost-packet
\* report, after MaxResends of them; nlost stays at MaxResends + 1
ResendLostPacketMore ==
    /\ pc = "resend_lost_packets"
    /\ nlost >= MaxResends
    /\ \E msg \in LostFrames :
         log' = DropOldestReport(log) \o
                << Event("rx", "resend_lost_packets", msg),
                   Event("tx", "resend_lost_packets",
                         Frame(LOST_PACKET_CAN_ID,
                               ReadChunk(ih, lost_address(msg.data)))) >>
    /\ nlost' = MaxResends + 1
    /\ UNCHANGED <<mode, configs, bi, pc, ih, timeout, sectors, si,
                   erase_progress, i, waiting, elapsed, ret, error, ui, result>>

NextLive == Next \/ ResendLostPacketMore

\* the host is one sequential program and every bus.recv returns within its
\* timeout, so a step that is possible is taken
SpecLive == Init /\ [][NextLive]_vars /\ WF_vars(NextLive)

\* C12 (as claimed): every run of the driver comes to an end, with success
\* or with a failure, whatever the device and the bus deliver
C12_Terminates == <>(pc \in {"failed", "finished"})


----------------------------------------------------------------------------
(* Bootloader._await_can_msg on its own, with a validator that has all     *)
(* three answers; every frame received goes to the history                 *)

InitAwait ==
    /\ mode = "update"
    /\ configs = <<quadruna_VC>>
    /\ bi = 1
    /\ pc = "await"
    /\ ih = NoImage
    /\ timeout = DEFAULT_TIMEOUT
    /\ sectors = <<>>
    /\ si = 1
    /\ erase_progress = 0
    /\ i = 0
    /\ waiting \in 1..ShortTimeout
    /\ elapsed = 0
    /\ ret = Pending
    /\ error = NoError
    /\ log = <<>>
    /\ ui = <<>>
    /\ nlost = 0
    /\ result = <<>>

NextAwait == AwaitRecvNone \/ AwaitRecvFrame \/ AwaitExpire

SpecAwait == InitAwait /\ [][NextAwait]_vars

\* the answers of the predicate of the wait on its own
Accepts(e) == e.id = Board.update_ack_can_id
Aborts(e) == e.id = OtherCanId

\* all frames received but the last were discarded
EarlierDiscarded ==
    \A n \in 1..(Len(log) - 1) : ~Accepts(log[n]) /\ ~Aborts(log[n])

\* C13 (as claimed): a frame is returned only if it was received before the
\* elapsed time reached the timeout T
C13_ReceivedBeforeTimeout ==
    (pc = "await" /\ ret.tag = "msg") => elapsed < waiting * TicksPerUnit

C13_State ==
    pc = "await" =>
      /\ ret.tag = "msg" =>
           /\ log # <<>>
           /\ log[Len(log)].id = ret.msg.id
           /\ log[Len(log)].data = ret.msg.data
           /\ Accepts(log[Len(log)])
           /\ EarlierDiscarded
           /\ elapsed < (waiting + RECV_TIMEOUT) * TicksPerUnit
      /\ ret = False =>
           /\ log # <<>>
           /\ Aborts(log[Len(log)])
           /\ EarlierDiscarded
      /\ ret = None =>
           /\ \A n \in 1..Len(log) : ~Accepts(log[n]) /\ ~Aborts(log[n])
           /\ elapsed >= waiting * TicksPerUnit
      /\ ret = Pending =>
           \A n \in 1..Len(log) : ~Accepts(log[n]) /\ ~Aborts(log[n])
      /\ False # None

C13_Step ==
    (pc = "await" /\ elapsed' # elapsed) =>
      /\ ret = Pending
      /\ elapsed < waiting * TicksPerUnit
      /\ elapsed' <= elapsed + RECV_TIMEOUT * TicksPerUnit

\* C13 (amended): the wait returns the first frame the predicate accepts
\* among the frames returned by the receive attempts it started before the
\* elapsed time reached T (so a frame may be returned up to one receive
\* timeout after T), discarding every earlier frame that is neither
\* accepted nor aborted; it returns None when those attempts gave no
\* accepted frame, and False, which is not None, as soon as a frame gives
\* Abort; it starts no receive attempt once the elapsed time is >= T
C13_AwaitContract == [](C13_State) /\ [][C13_Step]_vars

C13_Witness ==
    /\ pc = "await"
    /\ ret.tag = "msg"
    /\ Len(log) = 3
    /\ log[1].id = ERASE_SECTOR_COMPLETE_CAN_ID
    /\ log[2].id = ERASE_SECTOR_COMPLETE_CAN_ID
    /\ log[3].id = Board.update_ack_can_id


----------------------------------------------------------------------------

\* the erase selection of an erase session has been made
EraseSelectionMade == InSession /\ mode = "erase" /\ AckRx # {}
                                /\ pc # "start_update_wait"

\* C14: erase selects exactly the sectors of the layout that are not write
\* protected, in the order of the layout and whatever the image; it never
\* ends with the write-protection error and sends no program frame and no
\* lost-packet resend
C14_EraseSelection ==
    (InSession /\ mode = "erase") =>
      /\ EraseSelectionMade =>
           /\ \A k \in 1..Len(Board.mcu.flash_sectors) :
                LET s == Board.mcu.flash_sectors[k] IN
                  (\E n \in 1..Len(sectors) : sectors[n] = s)
                    <=> ~s.write_protect
           /\ \A n \in 1..(Len(sectors) - 1) :
                sectors[n].base_address < sectors[n + 1].base_address
      /\ ih = NoImage
      /\ error # ErrReadonly
      /\ ProgramTx \cup ResendTx = {}

C14_Witness ==
    /\ EraseSelectionMade
    /\ pc = "returned"
    /\ Len(sectors) = 2
    /\ Len(Board.mcu.flash_sectors) = 3
    /\ Cardinality(EraseTx) = 2


----------------------------------------------------------------------------

C15_State ==
    /\ bi \in 1..(Len(configs) + 1)
    /\ pc = "finished" => (bi = Len(configs) + 1 /\ error = NoError)
    /\ error # NoError => pc = "failed"
    /\ (InSession /\ log # <<>>) =>
         /\ bi <= Len(configs)
         /\ log[1].id = configs[bi].start_update_can_id

C15_Step ==
    /\ pc # "failed"
    /\ bi' # bi => (pc = "returned" /\ bi' = bi + 1)
    /\ pc' = "idle" => pc = "returned"
    /\ pc' = "start_update" => pc = "idle"
    /\ pc' = "finished" => pc = "idle"
    /\ (log' # log /\ log' # <<>>) => (bi' = bi /\ InSession)

\* C15: the driver runs the sessions one after another in the order of the
\* list: a session of the next board starts, and its frames are sent, only
\* after the session before it has returned; once a session has failed no
\* step follows: no frame is sent for a later board and the success message
\* is not reached
C15_Sequential == [](C15_State) /\ [][C15_Step]_vars

C15_Witness ==
    /\ Len(configs) = 2
    /\ bi = 2
    /\ pc = "failed"
    /\ log # <<>>
    /\ log[1].id = quadruna_BMS.start_update_can_id


----------------------------------------------------------------------------

\* the reports of the observer with this label
Reports(label) == { n \in 1..Len(ui) : ui[n][1] = label }

\* the phases that have come to a successful end
ErasePhaseDone ==
    /\ InSession
    /\ AckRx # {}
    /\ pc \notin {"start_update_wait", "erase_sectors", "erase_wait"}
    /\ error \notin {ErrEraseFlash, ErrReadonly}
ProgramPhaseDone == Programmed
VerifyPhaseDone == InSession /\ pc = "returned"

\* the reports of a phase that is over start at 0 and end at the total
Complete(label) ==
    /\ Reports(label) # {}
    /\ \E n \in Reports(label) :
         /\ \A m \in Reports(label) : n <= m
         /\ ui[n][3] = 0
    /\ \E n \in Reports(label) :
         /\ \A m \in Reports(label) : m <= n
         /\ ui[n][3] = ui[n][2]

\* C16: the first report of a phase that completes has completed = 0 and
\* the last has completed = total; within a phase the completed values do
\* not decrease and do not exceed the total
C16_Progress ==
    InSession =>
      /\ \A a \in 1..Len(ui) :
           /\ ui[a][1] \in {EraseLabel, ProgramLabel, VerifyLabel}
           /\ 0 <= ui[a][3]
           /\ ui[a][3] <= ui[a][2]
           /\ \A b \in 1..Len(ui) :
                (a < b /\ ui[a][1] = ui[b][1]) =>
                  (ui[a][3] <= ui[b][3] /\ ui[a][2] = ui[b][2])
      /\ ErasePhaseDone => Complete(EraseLabel)
      /\ ProgramPhaseDone => Complete(ProgramLabel)
      /\ VerifyPhaseDone => Complete(VerifyLabel)

C16_Witness ==
    /\ InSession
    /\ mode = "update"
    /\ pc = "returned"
    /\ Cardinality(Reports(ProgramLabel)) = 3
    /\ Cardinality(Reports(EraseLabel)) = 2


----------------------------------------------------------------------------

\* C17: erase_sectors sends the erase commands in the order of the selected
\* sectors, by ascending id and each once, sends a command only after an
\* erase-complete frame was received for the one before, and after a wait
\* that timed out it sends no erase command for the sectors that remain
C17_StopAndWait ==
    InSession =>
      LET erase_tx == EraseTx
          erase_rx == EraseRx
      IN  /\ \A a \in erase_tx :
                /\ Cardinality({ b \in erase_tx : b <= a }) <= Len(sectors)
                /\ log[a].data =
                     << sectors[Cardinality({ b \in erase_tx : b <= a })].id >>
          /\ \A a \in erase_tx, b \in erase_tx :
               a < b =>
                 /\ log[a].data[1] < log[b].data[1]
                 /\ \E r \in erase_rx : a < r /\ r < b
          /\ Cardinality(erase_rx) <= Cardinality(erase_tx)
          /\ error = ErrEraseFlash =>
               /\ pc = "failed"
               /\ log[Len(log)].k = "tx"
               /\ log[Len(log)].id = ERASE_SECTOR_CAN_ID
               /\ Cardinality(erase_tx) = si
               /\ Cardinality(erase_rx) = si - 1

C17_Witness ==
    /\ InSession
    /\ error = ErrEraseFlash
    /\ Len(sectors) = 2
    /\ si = 1
    /\ Cardinality(EraseTx) = 1


----------------------------------------------------------------------------

\* the sector has an address among the 8 addresses from s on
HoldsStride(sector, s) ==
    sector.base_address <= s + CHUNK - 1 /\ max_address(sector) >= s

\* the erase command of the sector is among the erase commands at the
\* positions tx, and an erase-complete frame among those at rx came after
\* it and before position n
ErasedBefore(tx, rx, sector, n) ==
    \E a \in tx, r \in rx :
      /\ log[a].data = <<sector.id>>
      /\ a < r
      /\ r < n

\* the first of the positions
First(positions) == CHOOSE n \in positions : \A m \in positions : n <= m

\* C18: when a program frame for the stride from s on is sent, every sector
\* of the layout with an address in [s, s + 8) has had its erase command
\* sent and its erase-complete frame received earlier in the session (the
\* program frames follow one another in the log, so that the frame at
\* position n is for the stride n - first)
C18_ErasedBeforeWritten ==
    (InSession /\ mode = "update") =>
      LET program_tx == ProgramTx
          erase_tx == EraseTx
          erase_rx == EraseRx
          first == First(program_tx)
      IN  \A n \in program_tx :
            LET start == ih.minaddr + CHUNK * (n - first) IN
            /\ n = first \/ n - 1 \in program_tx
            /\ \A k \in 1..Len(Board.mcu.flash_sectors) :
                 HoldsStride(Board.mcu.flash_sectors[k], start)
                   => ErasedBefore(erase_tx, erase_rx,
                                   Board.mcu.flash_sectors[k], n)

C18_Witness ==
    /\ InSession
    /\ mode = "update"
    /\ ih = Image(100, 140)
    /\ \E n \in ProgramTx :
         /\ FrameStart(n) = 124
         /\ HoldsStride(Board.mcu.flash_sectors[2], FrameStart(n))
         /\ HoldsStride(Board.mcu.flash_sectors[3], FrameStart(n))


----------------------------------------------------------------------------

\* C19 (as claimed): every wait of a session, the handshake wait, each
\* erase-complete wait and the verify wait, gives up once the elapsed time
\* reaches the timeout of the session: a wait that is still running has not
\* passed it by a receive timeout or more, and a wait that gave up did so
\* within one receive timeout after it
C19_WaitsUseSessionTimeout ==
    (InSession /\ pc \in {"start_update_wait", "erase_wait", "status_wait"}) =>
      /\ ret = Pending =>
           elapsed < (timeout + RECV_TIMEOUT) * TicksPerUnit
      /\ ret = None =>
           /\ elapsed >= timeout * TicksPerUnit
           /\ elapsed < (timeout + RECV_TIMEOUT) * TicksPerUnit


----------------------------------------------------------------------------

\* C20: the program phase sends size_bytes()/8 frames on the program
\* identifier and no more; the k-th of them (k = 0, 1, ...) carries exactly
\* the 8 bytes of the image source at minaddr+8k .. minaddr+8k+7, so the
\* strides go out in ascending order, none twice and none skipped; and
\* nothing is received, or sent on another identifier, between the first
\* and the last program frame
C20_ProgramFrames ==
    (InSession /\ mode = "update") =>
      LET program_tx == ProgramTx
          first == First(program_tx)
      IN  /\ \A n \in program_tx :
                LET start == ih.minaddr + CHUNK * (n - first) IN
                /\ n = first \/ n - 1 \in program_tx
                /\ Len(log[n].data) = CHUNK
                /\ \A j \in 1..CHUNK :
                     log[n].data[j] = ByteAt(ih, start + j - 1)
                /\ start + CHUNK <= ih.minaddr + size_bytes(ih)
          /\ Programmed => Cardinality(program_tx) * CHUNK = size_bytes(ih)

\* a program phase of several frames is over and the recovery loop has
\* made a receive after it
C20_Witness ==
    /\ Programmed
    /\ RecoveryRecv # {}
    /\ Cardinality(ProgramTx) = 4


----------------------------------------------------------------------------

\* the addresses self.ih[...] was read at: by the rounds 0 .. i - 1 of the
\* address loop of program, and by resend_lost_packets for each report
ProgramReads ==
    { program_address(ih, k) + j : k \in 0..(i - 1), j \in 0..(CHUNK - 1) }
RecoveryReads ==
    { lost_address(log[n].data) + j : n \in LostRx, j \in 0..(CHUNK - 1) }

\* the address is one of the image
InImage(a) == ih.minaddr <= a /\ a <= ih.maxaddr

\* C21 (as claimed): every read of the image source made by the program
\* phase and by the lost-packet recovery is at an address of
\* minaddr .. maxaddr, the strides added by the rounding of the length and
\* the addresses taken from the reports included
C21_ReadsInsideImage ==
    (InSession /\ mode = "update") =>
      \A a \in ProgramReads \cup RecoveryReads : InImage(a)

====
